---- MODULE Spec2Model ----
(***************************************************************************)
(* Mini-LSM: the block format (BlockBuilder, Block, BlockIterator) and the *)
(* leveled compaction controller (LeveledCompactionController).            *)
(*                                                                         *)
(* Seven specifications share this module.  SpecBlock drives one builder   *)
(* and one iterator over the block it builds; SpecRead adds the key() and  *)
(* value() accessors of the iterator.  SpecLsm drives the controller over  *)
(* a storage snapshot: flushes, generated tasks and their application.     *)
(* SpecGen applies generate_compaction_task alone to a wider family of     *)
(* snapshots.  SpecApply gives apply_compaction_result tasks whose source  *)
(* ids the snapshot may not hold.  SpecCycle runs flush and compaction     *)
(* cycles from an empty store, each merge writing no more than it read.    *)
(* SpecDrain runs the compaction thread with no flush arriving, under weak *)
(* fairness.  Each leaves the other machine's variables alone.             *)
(***************************************************************************)
EXTENDS Integers, Sequences, FiniteSets, TLC

VARIABLES
    builder,    \* BlockBuilder { offsets, data, block_size, first_key }
    added,      \* history: the (key, value) pairs whose add() returned true
    ret,        \* the value returned by the last add() on the builder
    block,      \* Block { data, offsets } produced by build()
    iter,       \* BlockIterator { key, value_range, idx, first_key }
    bpc,        \* "building" | "built" | "iterating" | "panic"
    origin,     \* history: how iter was created, "none" | "first" | "key"
    target,     \* history: the key given to create_and_seek_to_key
    yielded,    \* history: the (key, value) pairs iter has been valid on
    got,        \* <<>>, or <<the outcome of the key() or value() call that
                \*   was the last step>>
    options,        \* LeveledCompactionOptions of the controller
    l0_sstables,    \* LsmStorageState.l0_sstables: the ids of the L0 tables
    levels,         \* LsmStorageState.levels: levels[i] is the id list of level i
    sstables,       \* LsmStorageState.sstables: id -> table metadata
    task,           \* Option<LeveledCompactionTask>: <<>> or <<the task>>
    applied,        \* history: <<>> or <<the task last given to apply>>
    output,         \* the output ids given to the last apply_compaction_result
    files_to_remove,\* the removal list the last apply_compaction_result returned
    next_sst_id,    \* the id the next table written gets
    removed,        \* history: every id some removal list has held
    recovered,      \* history: some apply ran with in_recovery = true
    lpc             \* the last step: "init" | "flush" | "generate" | "apply"
                    \*   | "apply_recovery" | "panic"

blockVars == <<builder, added, ret, block, iter, bpc, origin, target, yielded,
               got>>

lsmVars == <<options, l0_sstables, levels, sstables, task, applied, output,
             files_to_remove, next_sst_id, removed, recovered, lpc>>

vars == <<blockVars, lsmVars>>

----------------------------------------------------------------------------
(* Bounds of the block model. *)

\* version stamps are drawn from 0..MaxTs
MaxTs == 1
\* ordinary values have 0..MaxValLen bytes
MaxValLen == 1
\* length of the one oversized value offered to add()
LargeValLen == 65537
\* the byte every value is filled with
ValueByte == 7
\* the state holds a byte buffer as a sequence of pages of this many bytes
PageSize == 256

(* Program constants. *)
SIZEOF_U16 == 2
SIZEOF_U64 == 8
\* number of values of a u16: `x as u16` is x modulo this
U16_RANGE == 65536

\* raw key bytes offered to add() and to seek_to_key()
KeyBytesSet == { <<1>>, <<1, 1>>, <<1, 2>>, <<2>> }
\* configured block sizes
BlockSizes == { 36, 52 }

Keys == { [key |-> k, ts |-> t] : k \in KeyBytesSet, t \in 0..MaxTs }
\* n bytes, each ValueByte
Filled(n) == SubSeq([i \in 1..n |-> ValueByte], 1, n)
SmallValues == { Filled(n) : n \in 0..MaxValLen }
LargeValue == Filled(LargeValLen)
Values == SmallValues \cup { LargeValue }

----------------------------------------------------------------------------
(* Key: raw bytes plus a version stamp. *)

\* KeyVec::new(): the empty key
EmptyKey == [key |-> <<>>, ts |-> 0]

key_len(k) == Len(k.key)

\* the encoded length of a key: its bytes and its 8-byte version stamp
raw_len(k) == Len(k.key) + SIZEOF_U64

key_is_empty(k) == k.key = <<>>

\* lexicographic comparison of byte strings
RECURSIVE BytesCmp(_, _)
BytesCmp(a, b) ==
    IF a = <<>> /\ b = <<>> THEN "Equal"
    ELSE IF a = <<>> THEN "Less"
    ELSE IF b = <<>> THEN "Greater"
    ELSE IF Head(a) < Head(b) THEN "Less"
    ELSE IF Head(a) > Head(b) THEN "Greater"
    ELSE BytesCmp(Tail(a), Tail(b))

\* Ord for keys: raw bytes ascending, then version stamp descending
KeyCmp(a, b) ==
    LET c == BytesCmp(a.key, b.key)
    IN  IF c # "Equal" THEN c
        ELSE IF a.ts > b.ts THEN "Less"
        ELSE IF a.ts < b.ts THEN "Greater"
        ELSE "Equal"

KeyLess(a, b) == KeyCmp(a, b) = "Less"
KeyLeq(a, b) == KeyCmp(a, b) # "Greater"

----------------------------------------------------------------------------
(* Byte buffers (Vec<u8>, &[u8]).  A buffer is its bytes cut into pages of *)
(* PageSize bytes, every page full but the last; positions are 0-based.    *)

\* the buffer holding the byte sequence bytes
ToBuf(bytes) ==
    IF Len(bytes) = 0 THEN <<>>
    ELSE IF Len(bytes) <= PageSize THEN <<bytes>>
    ELSE LET m == (Len(bytes) + PageSize - 1) \div PageSize
         IN  SubSeq([p \in 1..m |->
                        SubSeq(bytes, (p - 1) * PageSize + 1,
                               IF p * PageSize < Len(bytes) THEN p * PageSize
                               ELSE Len(bytes))], 1, m)

\* buf.len()
BufLen(buf) ==
    IF Len(buf) = 0 THEN 0
    ELSE (Len(buf) - 1) * PageSize + Len(buf[Len(buf)])

\* buf[i]
BufGet(buf, i) == buf[(i \div PageSize) + 1][(i % PageSize) + 1]

\* buf[from..to], as a byte sequence
BufSlice(buf, from, to) ==
    IF to <= from THEN <<>>
    ELSE SubSeq([k \in 1..(to - from) |-> BufGet(buf, from + k - 1)],
                1, to - from)

\* the bytes of buf, as a byte sequence
BufBytes(buf) ==
    IF Len(buf) = 0 THEN <<>>
    ELSE IF Len(buf) = 1 THEN buf[1]
    ELSE BufSlice(buf, 0, BufLen(buf))

\* buf.put(bytes)
BufPut(buf, bytes) == ToBuf(BufBytes(buf) \o bytes)

\* bytes[from..to] of a byte sequence
Slice(bytes, from, to) == SubSeq(bytes, from + 1, to)

----------------------------------------------------------------------------
(* Big-endian integer fields (bytes::BufMut, bytes::Buf). *)

\* the w big-endian bytes of n
RECURSIVE BigEndian(_, _)
BigEndian(n, w) ==
    IF w = 0 THEN <<>> ELSE Append(BigEndian(n \div 256, w - 1), n % 256)

\* the bytes put_u16(x as u16) writes
put_u16(x) == BigEndian(x % U16_RANGE, SIZEOF_U16)

\* the bytes put_u64(x) writes
put_u64(x) == BigEndian(x, SIZEOF_U64)

\* the integer held by the w bytes of buf from position pos on
RECURSIVE ReadBigEndian(_, _, _)
ReadBigEndian(buf, pos, w) ==
    IF w = 0 THEN 0
    ELSE ReadBigEndian(buf, pos, w - 1) * 256 + BufGet(buf, pos + w - 1)

get_u16(buf, pos) == ReadBigEndian(buf, pos, SIZEOF_U16)
get_u64(buf, pos) == ReadBigEndian(buf, pos, SIZEOF_U64)

----------------------------------------------------------------------------
(* BlockBuilder *)

\* BlockBuilder::new(block_size)
NewBuilder(block_size) ==
    [offsets |-> <<>>, data |-> ToBuf(<<>>), block_size |-> block_size,
     first_key |-> EmptyKey]

\* the number of leading bytes first_key and key share
RECURSIVE overlap_from(_, _, _)
overlap_from(first_key, key, i) ==
    IF i >= key_len(first_key) \/ i >= key_len(key) THEN i
    ELSE IF first_key.key[i + 1] # key.key[i + 1] THEN i
    ELSE overlap_from(first_key, key, i + 1)

compute_overlap(first_key, key) == overlap_from(first_key, key, 0)

estimated_size(b) ==
    SIZEOF_U16 + Len(b.offsets) * SIZEOF_U16 + BufLen(b.data)

is_empty(b) == b.offsets = <<>>

\* the admission test of add() without its exemption of the empty builder
add_is_full_also_when_empty(b, key, value) ==
    estimated_size(b) + raw_len(key) + Len(value) + SIZEOF_U16 * 3
        > b.block_size

\* the admission test of add(): true when add() returns false
add_is_full(b, key, value) ==
    /\ estimated_size(b) + raw_len(key) + Len(value) + SIZEOF_U16 * 3
           > b.block_size
    /\ ~is_empty(b)

\* the bytes add() appends to data for one entry
encode_entry(overlap, key, value) ==
    put_u16(overlap)
        \o put_u16(key_len(key) - overlap)
        \o Slice(key.key, overlap, key_len(key))
        \o put_u64(key.ts)
        \o put_u16(Len(value))
        \o value

\* add_entry measuring the overlap against the key added last: first_key
\* follows every entry
add_entry_against_previous(b, key, value) ==
    LET overlap == compute_overlap(b.first_key, key)
    IN  [b EXCEPT
            !.offsets = Append(b.offsets, BufLen(b.data) % U16_RANGE),
            !.data = BufPut(b.data, encode_entry(overlap, key, value)),
            !.first_key = key]

\* the builder after an add() that returns true
add_entry(b, key, value) ==
    LET overlap == compute_overlap(b.first_key, key)
    IN  [b EXCEPT
            !.offsets = Append(b.offsets, BufLen(b.data) % U16_RANGE),
            !.data = BufPut(b.data, encode_entry(overlap, key, value)),
            !.first_key = IF key_is_empty(b.first_key) THEN key
                          ELSE b.first_key]

----------------------------------------------------------------------------
(* Block and BlockIterator *)

NoBlock == [data |-> ToBuf(<<>>), offsets |-> <<>>]

\* Block::get_first_key
get_first_key(blk) ==
    LET klen == get_u16(blk.data, SIZEOF_U16)
    IN  [key |-> BufSlice(blk.data, 2 * SIZEOF_U16, 2 * SIZEOF_U16 + klen),
         ts |-> get_u64(blk.data, 2 * SIZEOF_U16 + klen)]

\* BlockIterator::new
NewIterator(blk) ==
    [key |-> EmptyKey, value_range |-> <<0, 0>>, idx |-> 0,
     first_key |-> get_first_key(blk)]

NoIterator ==
    [key |-> EmptyKey, value_range |-> <<0, 0>>, idx |-> 0,
     first_key |-> EmptyKey]

is_valid(it) == ~key_is_empty(it.key)

\* BlockIterator::seek_to_offset
seek_to_offset(it, blk, offset) ==
    LET overlap_len == get_u16(blk.data, offset)
        klen == get_u16(blk.data, offset + SIZEOF_U16)
        rest == BufSlice(blk.data, offset + 2 * SIZEOF_U16,
                         offset + 2 * SIZEOF_U16 + klen)
        ts == get_u64(blk.data, offset + 2 * SIZEOF_U16 + klen)
        value_len == get_u16(blk.data,
                             offset + 2 * SIZEOF_U16 + klen + SIZEOF_U64)
        value_offset_begin ==
            offset + SIZEOF_U16 + SIZEOF_U16 + SIZEOF_U64 + klen + SIZEOF_U16
        value_offset_end == value_offset_begin + value_len
    IN  [it EXCEPT
            !.key = [key |-> Slice(it.first_key.key, 0, overlap_len) \o rest,
                     ts |-> ts],
            !.value_range = <<value_offset_begin, value_offset_end>>]

\* BlockIterator::seek_to
seek_to(it, blk, idx) ==
    IF idx >= Len(blk.offsets)
    THEN [it EXCEPT !.key = [key |-> <<>>, ts |-> it.key.ts],
                    !.value_range = <<0, 0>>]
    ELSE [seek_to_offset(it, blk, blk.offsets[idx + 1]) EXCEPT !.idx = idx]

\* BlockIterator::next
next(it, blk) == seek_to([it EXCEPT !.idx = it.idx + 1], blk, it.idx + 1)

\* BlockIterator::key
key_of(it) == it.key

\* BlockIterator::value
value_of(it, blk) == BufSlice(blk.data, it.value_range[1], it.value_range[2])

\* key() as a build runs it: debug_assert! is compiled in when
\* debug_assertions is set and is no code at all otherwise
key_call(it, debug_assertions) ==
    IF debug_assertions /\ key_is_empty(it.key)
    THEN [call |-> "key", panic |-> TRUE]
    ELSE [call |-> "key", panic |-> FALSE, key |-> key_of(it)]

\* value() as a build runs it
value_call(it, blk, debug_assertions) ==
    IF debug_assertions /\ key_is_empty(it.key)
    THEN [call |-> "value", panic |-> TRUE]
    ELSE [call |-> "value", panic |-> FALSE, value |-> value_of(it, blk)]

\* the while loop of seek_to_key: the iterator after the last probe, whether
\* the loop returned on an equal key, and the final value of low
RECURSIVE seek_loop(_, _, _, _, _)
seek_loop(it, blk, key, low, high) ==
    IF low < high
    THEN LET mid == low + (high - low) \div 2
             probe == seek_to(it, blk, mid)
             c == KeyCmp(key_of(probe), key)
         IN  IF c = "Less" THEN seek_loop(probe, blk, key, mid + 1, high)
             ELSE IF c = "Greater" THEN seek_loop(probe, blk, key, low, mid)
             ELSE [it |-> probe, returned |-> TRUE, low |-> low]
    ELSE [it |-> it, returned |-> FALSE, low |-> low]

\* seek_to_key without the seek_to(low) that follows the loop
seek_to_key_no_final_seek(it, blk, key) ==
    seek_loop(it, blk, key, 0, Len(blk.offsets)).it

\* BlockIterator::seek_to_key
seek_to_key(it, blk, key) ==
    LET r == seek_loop(it, blk, key, 0, Len(blk.offsets))
    IN  IF r.returned THEN r.it ELSE seek_to(r.it, blk, r.low)

----------------------------------------------------------------------------
(* The block state machine. *)

\* an entry of the histories: a key and the buffer holding a value
Entry(key, value) == [key |-> key, value |-> ToBuf(value)]

\* the history of entries read, after the iterator moved to it
yield(seen, it, blk) ==
    IF is_valid(it)
    THEN Append(seen, Entry(key_of(it), value_of(it, blk)))
    ELSE seen

\* the controller and its snapshot while only the block machine runs
LsmIdle ==
    /\ options = [level_size_multiplier |-> 1,
                  level0_file_num_compaction_trigger |-> 1,
                  max_levels |-> 1, base_level_size_mb |-> 1]
    /\ l0_sstables = <<>>
    /\ levels = <<<<>>>>
    /\ sstables = <<>>
    /\ task = <<>>
    /\ applied = <<>>
    /\ output = <<>>
    /\ files_to_remove = <<>>
    /\ next_sst_id = 1
    /\ removed = {}
    /\ recovered = FALSE
    /\ lpc = "init"

InitBlockVars ==
    /\ builder \in { NewBuilder(bs) : bs \in BlockSizes }
    /\ added = <<>>
    /\ ret = TRUE
    /\ block = NoBlock
    /\ iter = NoIterator
    /\ bpc = "building"
    /\ origin = "none"
    /\ target = EmptyKey
    /\ yielded = <<>>
    /\ got = <<>>

\* builder.add(key, value)
Add(key, value) ==
    /\ bpc = "building"
    /\ IF add_is_full(builder, key, value)
       THEN /\ ret' = FALSE
            /\ UNCHANGED <<builder, added>>
       ELSE /\ ret' = TRUE
            /\ builder' = add_entry(builder, key, value)
            /\ added' = Append(added, Entry(key, value))
    /\ got' = <<>>
    /\ UNCHANGED <<block, iter, bpc, origin, target, yielded>>
    /\ UNCHANGED lsmVars

\* builder.build(): the builder is consumed, its buffers move into the block
\* and add() can return nothing more
Build ==
    /\ bpc = "building"
    /\ ~is_empty(builder)
    /\ block' = [data |-> builder.data, offsets |-> builder.offsets]
    /\ builder' = [builder EXCEPT !.data = ToBuf(<<>>), !.offsets = <<>>]
    /\ ret' = TRUE
    /\ bpc' = "built"
    /\ got' = <<>>
    /\ UNCHANGED <<added, iter, origin, target, yielded>>
    /\ UNCHANGED lsmVars

\* BlockIterator::create_and_seek_to_first(block)
CreateAndSeekToFirst ==
    /\ bpc = "built"
    /\ iter' = seek_to(NewIterator(block), block, 0)
    /\ bpc' = "iterating"
    /\ origin' = "first"
    /\ yielded' = yield(<<>>, iter', block)
    /\ got' = <<>>
    /\ UNCHANGED <<builder, added, ret, block, target>>
    /\ UNCHANGED lsmVars

\* BlockIterator::create_and_seek_to_key(block, key)
CreateAndSeekToKey(key) ==
    /\ bpc = "built"
    /\ iter' = seek_to_key(NewIterator(block), block, key)
    /\ bpc' = "iterating"
    /\ origin' = "key"
    /\ target' = key
    /\ yielded' = yield(<<>>, iter', block)
    /\ got' = <<>>
    /\ UNCHANGED <<builder, added, ret, block>>
    /\ UNCHANGED lsmVars

\* iter.next(); idx grows without bound on an exhausted iterator, so the
\* model stops calling next() once idx has passed the end
IterNext ==
    /\ bpc = "iterating"
    /\ iter.idx <= Len(block.offsets)
    /\ iter' = next(iter, block)
    /\ yielded' = yield(yielded, iter', block)
    /\ got' = <<>>
    /\ UNCHANGED <<builder, added, ret, block, bpc, origin, target>>
    /\ UNCHANGED lsmVars

\* iter.key() in a build with or without debug assertions
KeyCall(debug_assertions) ==
    /\ bpc = "iterating"
    /\ got' = <<key_call(iter, debug_assertions)>>
    /\ bpc' = IF got'[1].panic THEN "panic" ELSE bpc
    /\ UNCHANGED <<builder, added, ret, block, iter, origin, target, yielded>>
    /\ UNCHANGED lsmVars

\* iter.value() in a build with or without debug assertions
ValueCall(debug_assertions) ==
    /\ bpc = "iterating"
    /\ got' = <<value_call(iter, block, debug_assertions)>>
    /\ bpc' = IF got'[1].panic THEN "panic" ELSE bpc
    /\ UNCHANGED <<builder, added, ret, block, iter, origin, target, yielded>>
    /\ UNCHANGED lsmVars

NextBlock ==
    \/ \E key \in Keys, value \in Values : Add(key, value)
    \/ Build
    \/ CreateAndSeekToFirst
    \/ \E key \in Keys : CreateAndSeekToKey(key)
    \/ IterNext

InitBlock == InitBlockVars /\ LsmIdle

SpecBlock == InitBlock /\ [][NextBlock]_vars

\* a builder of small entries and an iterator over its block whose key() and
\* value() are called wherever it stands
NextRead ==
    \/ \E key \in Keys, value \in SmallValues : Add(key, value)
    \/ Build
    \/ CreateAndSeekToFirst
    \/ \E key \in Keys : CreateAndSeekToKey(key)
    \/ IterNext
    \/ \E debug_assertions \in BOOLEAN : KeyCall(debug_assertions)
    \/ \E debug_assertions \in BOOLEAN : ValueCall(debug_assertions)

SpecRead == InitBlock /\ [][NextRead]_vars

----------------------------------------------------------------------------
(* Properties of the block format. *)

\* the entries are in key order: raw bytes ascending, version stamp descending
Sorted(entries) ==
    \A i \in 1..Len(entries) : \A j \in 1..Len(entries) :
        i < j => KeyLeq(entries[i].key, entries[j].key)

\* the entries are in key order and no key occurs twice
StrictlySorted(entries) ==
    \A i \in 1..Len(entries) : \A j \in 1..Len(entries) :
        i < j => KeyLess(entries[i].key, entries[j].key)

\* every length and offset the builder wrote into a 16-bit field fits it
FitsU16 ==
    /\ \A i \in 1..Len(added) :
          /\ Len(added[i].key.key) < U16_RANGE
          /\ BufLen(added[i].value) < U16_RANGE
    /\ BufLen(block.data) < U16_RANGE

\* a scan from the first entry has read exactly the entries added, in order,
\* and is exhausted exactly when it has read them all
ScanMatchesAdded ==
    IF is_valid(iter)
    THEN /\ Len(yielded) <= Len(added)
         /\ yielded = SubSeq(added, 1, Len(yielded))
    ELSE yielded = added

\* C1: for entries added in key order whose add() calls all returned true,
\* build() then create_and_seek_to_first and repeated next() yields exactly
\* the entries added, in order, and the iterator is invalid right after the
\* last one.
C1_RoundTrip ==
    (bpc = "iterating" /\ origin = "first" /\ Sorted(added))
        => ScanMatchesAdded

\* The round trip of entries whose lengths and offsets all fit 16 bits.
RoundTripWithinU16 ==
    (bpc = "iterating" /\ origin = "first" /\ FitsU16) => ScanMatchesAdded

\* the keys of a history, in order
KeysOf(entries) == [i \in 1..Len(entries) |-> entries[i].key]

\* the 1-based index of the first entry whose key is >= key, or
\* Len(entries) + 1 when every key is smaller
LowerBound(entries, key) ==
    LET hits == { i \in 1..Len(entries) : KeyLeq(key, entries[i].key) }
    IN  IF hits = {} THEN Len(entries) + 1
        ELSE CHOOSE i \in hits : \A j \in hits : i <= j

\* an iterator created by create_and_seek_to_key(target) and then advanced by
\* next() stands on, and has read, the entries from the first one whose key
\* is >= target on; it is invalid when there is none or next() passed the end
SeekLanded ==
    LET lb == LowerBound(added, target)
        n == Len(yielded)
    IN  /\ lb + n - 1 <= Len(added)
        /\ KeysOf(yielded) = KeysOf(SubSeq(added, lb, lb + n - 1))
        /\ IF is_valid(iter)
           THEN /\ n >= 1
                /\ iter.idx = lb + n - 2
                /\ key_of(iter) = added[lb + n - 1].key
           ELSE lb + n - 1 = Len(added)

C3_SizeBound ==
    Len(builder.offsets) >= 2
        => estimated_size(builder) <= builder.block_size

----------------------------------------------------------------------------
(* LsmStorageState and the tables it refers to. *)

\* keys that bound the tables' key ranges; K1 < K2 < K3 in key order
K1 == [key |-> <<1>>, ts |-> 1]
K2 == [key |-> <<1>>, ts |-> 0]
K3 == [key |-> <<2>>, ts |-> 0]
TableKeys == { K1, K2, K3 }

\* the metadata of a table: first_key(), last_key(), table_size()
Meta(f, l, sz) == [first_key |-> f, last_key |-> l, table_size |-> sz]

\* the tables of the model: key ranges that are disjoint, touch at an end,
\* overlap in part or contain each other, of 1 MiB or 3 MiB
TableMetas ==
    { Meta(K1, K1, 1048576), Meta(K1, K2, 3145728), Meta(K2, K3, 1048576),
      Meta(K3, K3, 3145728), Meta(K1, K3, 1048576) }

\* the snapshot a call of the controller receives
Snapshot(l0, lvls, ssts) ==
    [l0_sstables |-> l0, levels |-> lvls, sstables |-> ssts]

\* the elements of a sequence
ToSet(seq) == { seq[i] : i \in 1..Len(seq) }

\* every id of the L0 list and of the level lists
RECURSIVE LevelIds(_, _)
LevelIds(lvls, i) ==
    IF i > Len(lvls) THEN {} ELSE ToSet(lvls[i]) \cup LevelIds(lvls, i + 1)

AllIds(snapshot) ==
    ToSet(snapshot.l0_sstables) \cup LevelIds(snapshot.levels, 1)

\* snapshot.sstables[id] finds a table
Registered(snapshot, ids) == \A id \in ids : id \in DOMAIN snapshot.sstables

----------------------------------------------------------------------------
(* LeveledCompactionController::find_overlapping_ssts *)

\* .min() over the keys of a non-empty sequence
RECURSIVE MinKey(_)
MinKey(keys) ==
    IF Len(keys) = 1 THEN keys[1]
    ELSE LET m == MinKey(Tail(keys))
         IN  IF KeyLeq(keys[1], m) THEN keys[1] ELSE m

\* .max() over the keys of a non-empty sequence
RECURSIVE MaxKey(_)
MaxKey(keys) ==
    IF Len(keys) = 1 THEN keys[1]
    ELSE LET m == MaxKey(Tail(keys))
         IN  IF KeyLess(m, keys[1]) THEN keys[1] ELSE m

\* the loop over the level: the ids kept, in the order of the level
RECURSIVE overlap_loop(_, _, _, _)
overlap_loop(snapshot, ids, begin_key, end_key) ==
    IF ids = <<>> THEN <<>>
    ELSE LET sst == snapshot.sstables[Head(ids)]
             rest == overlap_loop(snapshot, Tail(ids), begin_key, end_key)
         IN  IF ~(KeyLess(sst.last_key, begin_key)
                    \/ KeyLess(end_key, sst.first_key))
             THEN <<Head(ids)>> \o rest
             ELSE rest

\* find_overlapping_ssts leaving out the tables that only touch the range
\* at one of its ends
find_overlapping_inside(snapshot, sst_ids, in_level) ==
    LET begin_key ==
            MinKey([i \in 1..Len(sst_ids) |->
                        snapshot.sstables[sst_ids[i]].first_key])
        end_key ==
            MaxKey([i \in 1..Len(sst_ids) |->
                        snapshot.sstables[sst_ids[i]].last_key])
        Inside(id) ==
            ~(KeyLeq(snapshot.sstables[id].last_key, begin_key)
                \/ KeyLeq(end_key, snapshot.sstables[id].first_key))
    IN  SelectSeq(snapshot.levels[in_level], Inside)

find_overlapping_ssts(snapshot, sst_ids, in_level) ==
    LET begin_key ==
            MinKey([i \in 1..Len(sst_ids) |->
                        snapshot.sstables[sst_ids[i]].first_key])
        end_key ==
            MaxKey([i \in 1..Len(sst_ids) |->
                        snapshot.sstables[sst_ids[i]].last_key])
    IN  overlap_loop(snapshot, snapshot.levels[in_level], begin_key, end_key)

----------------------------------------------------------------------------
(* LeveledCompactionController::generate_compaction_task *)

\* the sum of table_size() over the ids of a level
RECURSIVE SumSizes(_, _)
SumSizes(snapshot, ids) ==
    IF ids = <<>> THEN 0
    ELSE snapshot.sstables[Head(ids)].table_size
            + SumSizes(snapshot, Tail(ids))

real_level_size(opts, snapshot) ==
    [i \in 1..opts.max_levels |-> SumSizes(snapshot, snapshot.levels[i])]

base_level_size_bytes(opts) == opts.base_level_size_mb * 1024 * 1024

\* target_loop setting a level's target only when that target itself
\* exceeds the configured size
RECURSIVE target_loop_own_target(_, _, _, _)
target_loop_own_target(opts, target_level_size, base_level, i) ==
    IF i < 1
    THEN [target_level_size |-> target_level_size, base_level |-> base_level]
    ELSE LET next_level_size == target_level_size[i + 1]
             this_level_size == next_level_size \div opts.level_size_multiplier
             t == IF this_level_size > base_level_size_bytes(opts)
                  THEN [target_level_size EXCEPT ![i] = this_level_size]
                  ELSE target_level_size
         IN  target_loop_own_target(opts, t,
                                    IF t[i] > 0 THEN i ELSE base_level, i - 1)

\* the bottom-up loop over the levels above the last one; i is the number of
\* the level being set
RECURSIVE target_loop(_, _, _, _)
target_loop(opts, target_level_size, base_level, i) ==
    IF i < 1
    THEN [target_level_size |-> target_level_size, base_level |-> base_level]
    ELSE LET next_level_size == target_level_size[i + 1]
             this_level_size == next_level_size \div opts.level_size_multiplier
             t == IF next_level_size > base_level_size_bytes(opts)
                  THEN [target_level_size EXCEPT ![i] = this_level_size]
                  ELSE target_level_size
         IN  target_loop(opts, t, IF t[i] > 0 THEN i ELSE base_level, i - 1)

\* compute_target with the bottom target set to the configured size alone
compute_target_from_base(opts, snapshot) ==
    LET zero == [i \in 1..opts.max_levels |-> 0]
    IN  target_loop(opts,
                    [zero EXCEPT ![opts.max_levels] = base_level_size_bytes(opts)],
                    opts.max_levels, opts.max_levels - 1)

\* step 1 of generate_compaction_task: target_level_size and base_level
compute_target(opts, snapshot) ==
    LET real == real_level_size(opts, snapshot)
        bottom == IF real[opts.max_levels] > base_level_size_bytes(opts)
                  THEN real[opts.max_levels]
                  ELSE base_level_size_bytes(opts)
        zero == [i \in 1..opts.max_levels |-> 0]
    IN  target_loop(opts, [zero EXCEPT ![opts.max_levels] = bottom],
                    opts.max_levels, opts.max_levels - 1)

\* the order of two quotients a / b and c / d of sizes, b and d positive.
\* The sizes stay below 2^24, where two different quotients are different
\* f64 values, so the exact order is the order of the f64 quotients.
RECURSIVE RatioCmp(_, _, _, _)
RatioCmp(a, b, c, d) ==
    IF a \div b < c \div d THEN "Less"
    ELSE IF a \div b > c \div d THEN "Greater"
    ELSE IF a % b = 0 /\ c % d = 0 THEN "Equal"
    ELSE IF a % b = 0 THEN "Less"
    ELSE IF c % d = 0 THEN "Greater"
    ELSE RatioCmp(d, c % d, b, a % b)

\* prio > 1.0 for prio = real as f64 / target as f64: x / 0 is infinite for
\* x > 0, and 0 / 0 is NaN, which is not greater than anything
PrioOverOne(real_size, target_size) ==
    IF target_size = 0 THEN real_size > 0 ELSE real_size > target_size

\* partial_cmp of two (prio, level) entries of priorities
PriorityCmp(p, q) ==
    LET c == IF p.target = 0 /\ q.target = 0 THEN "Equal"
             ELSE IF p.target = 0 THEN "Greater"
             ELSE IF q.target = 0 THEN "Less"
             ELSE RatioCmp(p.real, p.target, q.real, q.target)
    IN  IF c # "Equal" THEN c
        ELSE IF p.level < q.level THEN "Less"
        ELSE IF p.level > q.level THEN "Greater"
        ELSE "Equal"

\* the loop that fills priorities, from level on; an entry keeps the two
\* sizes its prio is the quotient of
RECURSIVE priority_loop(_, _, _, _)
priority_loop(opts, real_sizes, target_sizes, level) ==
    IF level > opts.max_levels THEN <<>>
    ELSE LET rest == priority_loop(opts, real_sizes, target_sizes, level + 1)
         IN  IF PrioOverOne(real_sizes[level], target_sizes[level])
             THEN <<[real |-> real_sizes[level],
                     target |-> target_sizes[level],
                     level |-> level]>> \o rest
             ELSE rest

\* stable insertion of p into a list sorted by the reversed partial_cmp
RECURSIVE insert_priority(_, _)
insert_priority(p, sorted) ==
    IF sorted = <<>> THEN <<p>>
    ELSE IF PriorityCmp(p, Head(sorted)) = "Greater"
         THEN <<p>> \o sorted
         ELSE <<Head(sorted)>> \o insert_priority(p, Tail(sorted))

\* priorities.sort_by(|a, b| a.partial_cmp(b).unwrap().reverse())
RECURSIVE sort_priorities(_)
sort_priorities(priorities) ==
    IF priorities = <<>> THEN <<>>
    ELSE insert_priority(Head(priorities), sort_priorities(Tail(priorities)))

\* the first id of a level in place of its smallest
FirstId(ids) == ids[1]

\* .iter().min() over the ids of a non-empty level
RECURSIVE MinId(_)
MinId(ids) ==
    IF Len(ids) = 1 THEN ids[1]
    ELSE LET m == MinId(Tail(ids)) IN IF ids[1] <= m THEN ids[1] ELSE m

\* l0_task with the lower level marked as the bottom level whatever it is
l0_task_marking_bottom(opts, snapshot, base_level) ==
    [upper_level |-> <<>>,
     upper_level_sst_ids |-> snapshot.l0_sstables,
     lower_level |-> base_level,
     lower_level_sst_ids |->
        find_overlapping_ssts(snapshot, snapshot.l0_sstables, base_level),
     is_lower_level_bottom_level |-> TRUE]

\* the L0 branch: flush every L0 table into the base level
l0_task(opts, snapshot, base_level) ==
    [upper_level |-> <<>>,
     upper_level_sst_ids |-> snapshot.l0_sstables,
     lower_level |-> base_level,
     lower_level_sst_ids |->
        find_overlapping_ssts(snapshot, snapshot.l0_sstables, base_level),
     is_lower_level_bottom_level |-> base_level = opts.max_levels]

\* the priority branch: compact the smallest id of level into level + 1
priority_task(opts, snapshot, level) ==
    LET selected_sst == MinId(snapshot.levels[level])
    IN  [upper_level |-> <<level>>,
         upper_level_sst_ids |-> <<selected_sst>>,
         lower_level |-> level + 1,
         lower_level_sst_ids |->
            find_overlapping_ssts(snapshot, <<selected_sst>>, level + 1),
         is_lower_level_bottom_level |-> level + 1 = opts.max_levels]

\* priorities after the sort
sorted_priorities(opts, snapshot) ==
    sort_priorities(
        priority_loop(opts, real_level_size(opts, snapshot),
                      compute_target(opts, snapshot).target_level_size, 1))

\* generate_compaction_task with the size ratios consulted before the L0
\* trigger
generate_ratio_before_l0(opts, snapshot) ==
    LET priorities == sorted_priorities(opts, snapshot)
    IN  IF priorities # <<>>
        THEN <<priority_task(opts, snapshot, priorities[1].level)>>
        ELSE IF Len(snapshot.l0_sstables)
                    >= opts.level0_file_num_compaction_trigger
        THEN <<l0_task(opts, snapshot,
                       compute_target(opts, snapshot).base_level)>>
        ELSE <<>>

\* generate_compaction_task: None is <<>>, Some(task) is <<task>>
generate_compaction_task(opts, snapshot) ==
    IF Len(snapshot.l0_sstables) >= opts.level0_file_num_compaction_trigger
    THEN <<l0_task(opts, snapshot, compute_target(opts, snapshot).base_level)>>
    ELSE LET priorities == sorted_priorities(opts, snapshot)
         IN  IF priorities # <<>>
             THEN <<priority_task(opts, snapshot, priorities[1].level)>>
             ELSE <<>>

----------------------------------------------------------------------------
(* LeveledCompactionController::apply_compaction_result *)

\* remove_ids with the ids left in the set forgotten
remove_ids_ignoring(ids, set) ==
    [kept |-> SelectSeq(ids, LAMBDA x : x \notin set), left |-> {}]

\* the filter_map over a list with set.remove(x): the ids kept, and the ids
\* left in the set when the list is through
RECURSIVE remove_ids(_, _)
remove_ids(ids, set) ==
    IF ids = <<>> THEN [kept |-> <<>>, left |-> set]
    ELSE IF Head(ids) \in set
         THEN remove_ids(Tail(ids), set \ {Head(ids)})
         ELSE LET r == remove_ids(Tail(ids), set)
              IN  [kept |-> <<Head(ids)>> \o r.kept, left |-> r.left]

\* stable insertion of id behind the ids of sorted whose first key is not
\* greater
RECURSIVE insert_by_first_key(_, _, _)
insert_by_first_key(snapshot, sorted, id) ==
    IF sorted = <<>> THEN <<id>>
    ELSE IF KeyLess(snapshot.sstables[id].first_key,
                    snapshot.sstables[Head(sorted)].first_key)
         THEN <<id>> \o sorted
         ELSE <<Head(sorted)>> \o insert_by_first_key(snapshot, Tail(sorted), id)

\* the stable sort_by on first_key(), the first n ids in place
RECURSIVE sort_prefix(_, _, _)
sort_prefix(snapshot, ids, n) ==
    IF n = 0 THEN <<>>
    ELSE insert_by_first_key(snapshot, sort_prefix(snapshot, ids, n - 1), ids[n])

sort_by_first_key(snapshot, ids) == sort_prefix(snapshot, ids, Len(ids))

\* the sort compares, and so looks up, every id of a list of two or more
sort_panics(snapshot, ids) ==
    Len(ids) >= 2 /\ ~Registered(snapshot, ToSet(ids))

\* the outcome of a call that panicked
Panicked == [panic |-> TRUE]

\* apply_lower with the lower sources left in the level
apply_lower_keeping_sources(snapshot, tsk, out, sort) ==
    LET new_lower_level_ssts == snapshot.levels[tsk.lower_level] \o out
    IN  IF sort /\ sort_panics(snapshot, new_lower_level_ssts)
        THEN Panicked
        ELSE [panic |-> FALSE,
              sstables |-> snapshot.sstables,
              l0_sstables |-> snapshot.l0_sstables,
              levels |-> [snapshot.levels EXCEPT ![tsk.lower_level] =
                            IF sort
                            THEN sort_by_first_key(snapshot,
                                                   new_lower_level_ssts)
                            ELSE new_lower_level_ssts],
              files_to_remove |->
                    tsk.upper_level_sst_ids \o tsk.lower_level_sst_ids]

\* the lower level: remove the lower sources, append output and, when sort
\* is set, sort by first key
apply_lower(snapshot, tsk, out, sort) ==
    LET lower == remove_ids(snapshot.levels[tsk.lower_level],
                            ToSet(tsk.lower_level_sst_ids))
        new_lower_level_ssts == lower.kept \o out
    IN  IF lower.left # {} THEN Panicked
        ELSE IF sort /\ sort_panics(snapshot, new_lower_level_ssts)
        THEN Panicked
        ELSE [panic |-> FALSE,
              sstables |-> snapshot.sstables,
              l0_sstables |-> snapshot.l0_sstables,
              levels |-> [snapshot.levels EXCEPT ![tsk.lower_level] =
                            IF sort
                            THEN sort_by_first_key(snapshot,
                                                   new_lower_level_ssts)
                            ELSE new_lower_level_ssts],
              files_to_remove |->
                    tsk.upper_level_sst_ids \o tsk.lower_level_sst_ids]

\* apply_upper with the upper sources left in their list
apply_upper_keeping_sources(snapshot, tsk, out, sort) ==
    apply_lower(snapshot, tsk, out, sort)

\* the sequence back to front
RECURSIVE Reverse(_)
Reverse(seq) ==
    IF seq = <<>> THEN <<>> ELSE Append(Reverse(Tail(seq)), Head(seq))

\* apply_upper with the ids kept in the upper list put back to front
apply_upper_reordering(snapshot, tsk, out, sort) ==
    LET from == IF tsk.upper_level # <<>>
                THEN snapshot.levels[tsk.upper_level[1]]
                ELSE snapshot.l0_sstables
        upper == remove_ids(from, ToSet(tsk.upper_level_sst_ids))
        after == IF tsk.upper_level # <<>>
                 THEN [snapshot EXCEPT !.levels[tsk.upper_level[1]] =
                                            Reverse(upper.kept)]
                 ELSE [snapshot EXCEPT !.l0_sstables = Reverse(upper.kept)]
    IN  IF upper.left # {} THEN Panicked
        ELSE apply_lower(after, tsk, out, sort)

\* the upper level or L0: remove the upper sources, then the lower level
apply_upper(snapshot, tsk, out, sort) ==
    LET from == IF tsk.upper_level # <<>>
                THEN snapshot.levels[tsk.upper_level[1]]
                ELSE snapshot.l0_sstables
        upper == remove_ids(from, ToSet(tsk.upper_level_sst_ids))
        after == IF tsk.upper_level # <<>>
                 THEN [snapshot EXCEPT !.levels[tsk.upper_level[1]] = upper.kept]
                 ELSE [snapshot EXCEPT !.l0_sstables = upper.kept]
    IN  IF upper.left # {} THEN Panicked
        ELSE apply_lower(after, tsk, out, sort)

\* apply_compaction_result with the sort left out
apply_never_sorting(snapshot, tsk, out, in_recovery) ==
    apply_upper(snapshot, tsk, out, FALSE)

\* apply_compaction_result: the lists of the returned snapshot and
\* files_to_remove, or a panic
apply_compaction_result(snapshot, tsk, out, in_recovery) ==
    apply_upper(snapshot, tsk, out, ~in_recovery)

----------------------------------------------------------------------------
(* The controller state machine: the engine flushes tables into L0, asks   *)
(* the controller for a task, has the task's tables merged and applies the *)
(* result.                                                                 *)

\* the snapshots SpecGen starts from hold at most this many tables
GenTables == 3
\* the snapshots SpecLsm starts from hold at most this many tables
InitTables == 2
\* table ids stay at or below this
MaxSstId == 3
\* a merge writes at most this many tables
MaxOutputs == 2

\* the configurations of the controller
OptionsSet ==
    { [level_size_multiplier |-> 2, level0_file_num_compaction_trigger |-> 2,
       max_levels |-> 3, base_level_size_mb |-> 1],
      [level_size_multiplier |-> 3, level0_file_num_compaction_trigger |-> 1,
       max_levels |-> 2, base_level_size_mb |-> 1],
      [level_size_multiplier |-> 1, level0_file_num_compaction_trigger |-> 1,
       max_levels |-> 1, base_level_size_mb |-> 2] }

\* the snapshot the controller is called with
CurrentSnapshot == Snapshot(l0_sstables, levels, sstables)

\* the ids lo..hi, ascending
IdRange(lo, hi) == [i \in 1..(hi - lo + 1) |-> lo + i - 1]

\* ssts with the tables ids[i] |-> metas[i] registered
Register(ssts, ids, metas) ==
    [id \in DOMAIN ssts \cup ToSet(ids) |->
        IF id \in DOMAIN ssts THEN ssts[id]
        ELSE metas[CHOOSE i \in 1..Len(ids) : ids[i] = id]]

\* ssts without the tables of ids
Unregister(ssts, ids) == [id \in DOMAIN ssts \ ids |-> ssts[id]]

\* the ids 1..n that place puts into level lvl, ascending
PlacedIn(place, n, lvl) ==
    LET Test(id) == place[id] = lvl IN SelectSeq(IdRange(1, n), Test)

BlockIdle ==
    /\ builder = NewBuilder(0)
    /\ added = <<>>
    /\ ret = TRUE
    /\ block = NoBlock
    /\ iter = NoIterator
    /\ bpc = "idle"
    /\ origin = "none"
    /\ target = EmptyKey
    /\ yielded = <<>>
    /\ got = <<>>

\* a snapshot of up to max tables out of table_metas with distinct ids, any
\* of them in L0 or in a level, every level ascending by first key, under
\* one of the configurations configs
InitInventory(configs, table_metas, max) ==
    /\ BlockIdle
    /\ \E opts \in configs, n \in 0..max :
        \E place \in [1..n -> 0..opts.max_levels], metas \in [1..n -> table_metas] :
            /\ options = opts
            /\ sstables = metas
            /\ l0_sstables = PlacedIn(place, n, 0)
            /\ levels = [lvl \in 1..opts.max_levels |->
                            sort_by_first_key(Snapshot(<<>>, <<>>, metas),
                                              PlacedIn(place, n, lvl))]
            /\ next_sst_id = n + 1
    /\ task = <<>>
    /\ applied = <<>>
    /\ output = <<>>
    /\ files_to_remove = <<>>
    /\ removed = {}
    /\ recovered = FALSE
    /\ lpc = "init"

\* the same out of all of TableMetas
InitSnapshot(configs, max) == InitInventory(configs, TableMetas, max)

\* the configurations SpecLsm runs: those of one or two levels
LsmOptions == { opts \in OptionsSet : opts.max_levels <= 2 }

InitLsm == InitSnapshot(LsmOptions, InitTables)

InitGen == InitSnapshot(OptionsSet, GenTables)

\* a memtable flush: a new table enters L0
FlushTable(meta) ==
    /\ lpc # "panic"
    /\ sstables' = Register(sstables, <<next_sst_id>>, <<meta>>)
    /\ l0_sstables' = Append(l0_sstables, next_sst_id)
    /\ next_sst_id' = next_sst_id + 1
    /\ lpc' = "flush"
    /\ UNCHANGED <<options, levels, task, applied, output, files_to_remove,
                   removed, recovered>>
    /\ UNCHANGED blockVars

\* a flush while ids are left
Flush(meta) ==
    /\ next_sst_id <= MaxSstId
    /\ FlushTable(meta)

\* task = controller.generate_compaction_task(snapshot)
Generate ==
    /\ lpc # "panic"
    /\ task' = generate_compaction_task(options, CurrentSnapshot)
    /\ lpc' = "generate"
    /\ UNCHANGED <<options, l0_sstables, levels, sstables, applied, output,
                   files_to_remove, next_sst_id, removed, recovered>>
    /\ UNCHANGED blockVars

\* ApplyTask with the returned snapshot dropped: nothing is installed
ApplyTaskDroppingResult(tsk, metas, in_recovery) ==
    /\ lpc # "panic"
    /\ applied' = <<tsk>>
    /\ lpc' = IF in_recovery THEN "apply_recovery" ELSE "apply"
    /\ UNCHANGED <<options, l0_sstables, levels, sstables, task, output,
                   files_to_remove, next_sst_id, removed, recovered>>
    /\ UNCHANGED blockVars

\* controller.apply_compaction_result(snapshot, tsk, output, in_recovery)
\* for the tables metas written under fresh ids.  Outside recovery the merge
\* has registered them before the call; in recovery they are loaded after it.
\* The engine installs the returned lists and drops the removed tables.  A
\* failed assert or unwrap ends the program with nothing installed.
ApplyTask(tsk, metas, in_recovery) ==
    LET out == IdRange(next_sst_id, next_sst_id + Len(metas) - 1)
        loaded == Register(sstables, out, metas)
        r == apply_compaction_result(
                Snapshot(l0_sstables, levels,
                         IF in_recovery THEN sstables ELSE loaded),
                tsk, out, in_recovery)
    IN  /\ lpc # "panic"
        /\ applied' = <<tsk>>
        /\ IF r.panic
           THEN /\ lpc' = "panic"
                /\ UNCHANGED <<l0_sstables, levels, sstables, task,
                               output, files_to_remove, next_sst_id, removed,
                               recovered>>
           ELSE /\ l0_sstables' = r.l0_sstables
                /\ levels' = r.levels
                /\ files_to_remove' = r.files_to_remove
                /\ sstables' = Unregister(IF in_recovery
                                          THEN Register(r.sstables, out, metas)
                                          ELSE r.sstables,
                                          ToSet(r.files_to_remove))
                /\ task' = <<>>
                /\ output' = out
                /\ next_sst_id' = next_sst_id + Len(metas)
                /\ removed' = removed \cup ToSet(r.files_to_remove)
                /\ recovered' = (recovered \/ in_recovery)
                /\ lpc' = IF in_recovery THEN "apply_recovery" ELSE "apply"
        /\ UNCHANGED options
        /\ UNCHANGED blockVars

\* the compaction thread: the task generate_compaction_task returned is
\* applied as it is
Apply(metas, in_recovery) ==
    /\ task # <<>>
    /\ next_sst_id + Len(metas) - 1 <= MaxSstId
    /\ ApplyTask(task[1], metas, in_recovery)

\* the ids handed out in compaction cycles
CycleSstId == 5
\* the tables an inventory holds when the compaction thread is left alone
DrainTables == 1

\* the tables a merge may write
OutputMetas ==
    UNION { [1..k -> TableMetas] : k \in 0..MaxOutputs }

\* the merges that write one table at most
ShortOutputs == { metas \in OutputMetas : Len(metas) <= 1 }

NextLsm ==
    \/ \E meta \in TableMetas : Flush(meta)
    \/ Generate
    \/ \E metas \in OutputMetas, in_recovery \in BOOLEAN :
            Apply(metas, in_recovery)

SpecLsm == InitLsm /\ [][NextLsm]_vars

\* generate_compaction_task alone, over every snapshot of InitGen
NextGen == Generate

SpecGen == InitGen /\ [][NextGen]_vars

\* the ids a task may name beside its own sources
ForeignIds == { <<>> } \cup { <<id>> : id \in 1..(MaxSstId + 1) }

\* apply_compaction_result for the generated task with upper_extra or
\* lower_extra added to its source ids, as a stale or replayed task may name
\* them; with neither it is the generated task
ApplyForeign(upper_extra, lower_extra, metas, in_recovery) ==
    /\ task # <<>>
    /\ next_sst_id + Len(metas) - 1 <= MaxSstId
    /\ upper_extra = <<>> \/ lower_extra = <<>>
    /\ ApplyTask([task[1] EXCEPT
                    !.upper_level_sst_ids = @ \o upper_extra,
                    !.lower_level_sst_ids = @ \o lower_extra],
                 metas, in_recovery)

\* the controller under tasks that may name ids their lists do not hold
NextApply ==
    \/ Generate
    \/ \E upper_extra \in ForeignIds, lower_extra \in ForeignIds,
          metas \in ShortOutputs, in_recovery \in BOOLEAN :
            ApplyForeign(upper_extra, lower_extra, metas, in_recovery)

\* the tables flushed and written in compaction cycles: all overlap
CycleMetas == { Meta(K1, K3, 1048576), Meta(K1, K2, 3145728) }

\* the tables a merge of a cycle may write
CycleOutputs == UNION { [1..k -> CycleMetas] : k \in 0..MaxOutputs }

\* the total size of tables
RECURSIVE TotalSize(_)
TotalSize(metas) ==
    IF metas = <<>> THEN 0 ELSE Head(metas).table_size + TotalSize(Tail(metas))

\* a flush of a cycle
FlushCycle(meta) ==
    /\ next_sst_id <= CycleSstId
    /\ FlushTable(meta)

\* the merge of the pending task wrote metas under fresh ids and its result
\* is applied
ApplyFresh(metas) ==
    /\ task # <<>>
    /\ next_sst_id + Len(metas) - 1 <= CycleSstId
    /\ ApplyTask(task[1], metas, FALSE)

\* the same for a merge that wrote no more in total than the tables it read
ApplyMerged(metas) ==
    /\ task # <<>>
    /\ TotalSize(metas)
          <= SumSizes(CurrentSnapshot,
                      task[1].upper_level_sst_ids \o task[1].lower_level_sst_ids)
    /\ ApplyFresh(metas)

\* an inventory with no table in any level, grown by flushes and cycles of
\* generate and apply
InitCycle ==
    InitSnapshot({ opts \in OptionsSet : opts.max_levels >= 2 }, 0)

NextCycle ==
    \/ \E meta \in CycleMetas : FlushCycle(meta)
    \/ Generate
    \/ \E metas \in CycleOutputs : ApplyMerged(metas)

SpecCycle == InitCycle /\ [][NextCycle]_vars

\* the compaction thread with no flush arriving: it generates a task, has it
\* merged and applies the result, again and again
NextDrain ==
    \/ \E metas \in ShortOutputs : ApplyFresh(metas)
    \/ Generate

\* any inventory of up to DrainTables tables
InitDrain == InitInventory(OptionsSet, CycleMetas, DrainTables)

\* the thread is never held up for good: it takes a step whenever it has one
SpecDrain ==
    /\ InitDrain
    /\ [][NextDrain]_vars
    /\ WF_vars(NextDrain)

\* the snapshots of the two-level configuration
InitApply ==
    InitSnapshot({ opts \in OptionsSet : opts.max_levels = 2 }, InitTables)

SpecApply == InitApply /\ [][NextApply]_vars

----------------------------------------------------------------------------
(* Properties of the leveled compaction controller. *)

\* the sizes generate_compaction_task works with on the current snapshot
RealSizes == real_level_size(options, CurrentSnapshot)
TargetSizes == compute_target(options, CurrentSnapshot).target_level_size

\* generate_compaction_task has just returned for the current snapshot
Generated == lpc = "generate"

\* the L0 trigger is reached
L0Due == Len(l0_sstables) >= options.level0_file_num_compaction_trigger

\* the levels whose real size / target size exceeds 1
OverTarget ==
    { i \in 1..options.max_levels : PrioOverOne(RealSizes[i], TargetSizes[i]) }

\* the base level: the lowest-numbered level with a target above zero
BaseLevel ==
    LET active == { i \in 1..options.max_levels : TargetSizes[i] > 0 }
    IN  IF active = {} THEN options.max_levels
        ELSE CHOOSE i \in active : \A j \in active : i <= j

Intersects(f1, l1, f2, l2) ==
    \E k \in TableKeys :
        /\ KeyLeq(f1, k) /\ KeyLeq(k, l1)
        /\ KeyLeq(f2, k) /\ KeyLeq(k, l2)

\* the smallest first key and the greatest last key of the tables ids
LowestFirst(ids) ==
    CHOOSE f \in { sstables[id].first_key : id \in ids } :
        \A id \in ids : KeyLeq(f, sstables[id].first_key)
HighestLast(ids) ==
    CHOOSE l \in { sstables[id].last_key : id \in ids } :
        \A id \in ids : KeyLeq(sstables[id].last_key, l)

\* the tables of level lvl whose key range intersects the range the upper
\* sources span
IntersectingIds(upper, lvl) ==
    { id \in ToSet(levels[lvl]) :
        Intersects(sstables[id].first_key, sstables[id].last_key,
                   LowestFirst(upper), HighestLast(upper)) }

\* C5: lower_level_sst_ids of every task returned holds exactly the tables
\* of the lower level whose key range intersects [least first key, greatest
\* last key] of the upper sources: tables overlapping in part or touching at
\* an end are in, tables wholly below or above are out.
C5_OverlapComplete ==
    (Generated /\ task # <<>>)
        => ToSet(task[1].lower_level_sst_ids)
              = IntersectingIds(ToSet(task[1].upper_level_sst_ids),
                                task[1].lower_level)

\* C5 witness: the lower level holds a table picked because its range
\* touches the upper range at one key only, and a table left out.
C5_Witness ==
    /\ Generated /\ task # <<>>
    /\ \E id \in ToSet(task[1].lower_level_sst_ids) :
          sstables[id].first_key
              = HighestLast(ToSet(task[1].upper_level_sst_ids))
    /\ ToSet(levels[task[1].lower_level])
          # ToSet(task[1].lower_level_sst_ids)

\* apply_compaction_result has just returned
Applied == lpc \in { "apply", "apply_recovery" }

\* no element occurs twice in the sequence
NoDuplicates(seq) == Cardinality(ToSet(seq)) = Len(seq)

\* the step applies the pending task: the lists before the step are the
\* input snapshot, the lists after it the returned one
ApplyStepAlgebra ==
    LET lower == task[1].lower_level
    IN  /\ ToSet(files_to_remove')
              = ToSet(task[1].upper_level_sst_ids)
                    \cup ToSet(task[1].lower_level_sst_ids)
        /\ Len(files_to_remove')
              = Len(task[1].upper_level_sst_ids)
                    + Len(task[1].lower_level_sst_ids)
        /\ ToSet(levels'[lower])
              = (ToSet(levels[lower]) \ ToSet(task[1].lower_level_sst_ids))
                    \cup ToSet(output')
        /\ NoDuplicates(levels'[lower])

\* C6: applying a task whose sources are all in their lists returns a
\* removal list holding exactly the task's upper and lower source ids, and a
\* lower level holding exactly the old lower level's ids without the lower
\* sources, together with the output ids; with fresh output ids no id is in
\* it twice.
C6_SetAlgebra ==
    [][(lpc' \in { "apply", "apply_recovery" }) => ApplyStepAlgebra]_vars

\* C6 witness: an apply of a task from one level into the next removed an
\* upper and a lower source and added an output table to the lower level.
C6_Witness ==
    /\ Applied
    /\ applied[1].upper_level # <<>>
    /\ applied[1].lower_level_sst_ids # <<>>
    /\ output # <<>>
    /\ ToSet(output) \subseteq ToSet(levels[applied[1].lower_level])
    /\ ToSet(files_to_remove) \cap AllIds(CurrentSnapshot) = {}

\* the number of places the L0 list and the level lists hold
RECURSIVE ListedCount(_, _)
ListedCount(lvls, i) ==
    IF i > Len(lvls) THEN 0 ELSE Len(lvls[i]) + ListedCount(lvls, i + 1)

\* every id is in at most one place of the L0 list and the level lists
IdsUnique ==
    Len(l0_sstables) + ListedCount(levels, 1)
        = Cardinality(AllIds(CurrentSnapshot))

\* C7: from a snapshot holding every id at most once, after any sequence of
\* generate and apply steps with fresh output ids, no id a removal list has
\* held is in the L0 list or a level list, and every id is still held at
\* most once.
C7_RemovedSafe ==
    /\ removed \cap AllIds(CurrentSnapshot) = {}
    /\ IdsUnique

\* C7 witness: an apply of an L0 task removed two tables while L0 keeps a
\* table flushed after the task was generated.
C7_Witness ==
    /\ lpc = "apply"
    /\ Cardinality(removed) >= 2
    /\ ToSet(files_to_remove) \subseteq removed
    /\ l0_sstables # <<>>

\* the ids are ascending by the first key of their tables
SortedByFirstKey(ids) ==
    \A i \in 1..Len(ids) : \A j \in 1..Len(ids) :
        i < j => KeyLeq(sstables[ids[i]].first_key, sstables[ids[j]].first_key)

AllLevelsSorted ==
    \A i \in 1..options.max_levels : SortedByFirstKey(levels[i])

\* the step applies the pending task in recovery: the lower level is the ids
\* kept, in their old order, followed by the output ids
RecoveryStepAppends ==
    LET lower == task[1].lower_level
        Kept(id) == id \notin ToSet(task[1].lower_level_sst_ids)
    IN  levels'[lower] = SelectSeq(levels[lower], Kept) \o output'

\* C8: from level lists ascending by first key, with every output id
\* registered, applies with in_recovery = false leave every level list
\* ascending by first key, in every state any sequence of them reaches.  An
\* apply with in_recovery = true leaves the lower level as the ids kept, in
\* their old order, followed by the output ids, and looks no table up: it
\* does not fail on output ids that are not registered.
C8_LevelOrdering ==
    /\ [](~recovered => AllLevelsSorted)
    /\ [][lpc' = "apply_recovery" => RecoveryStepAppends]_vars
    /\ [](lpc # "panic")

\* C8 witness: an apply outside recovery sorted an output table in front of
\* a table the lower level kept.
C8_Witness ==
    /\ lpc = "apply" /\ ~recovered
    /\ output # <<>>
    /\ \E i \in 1..options.max_levels :
          /\ Len(levels[i]) >= 2
          /\ levels[i][1] = output[1]
          /\ levels[i][2] \notin ToSet(output)
          /\ KeyLess(sstables[levels[i][1]].first_key,
                     sstables[levels[i][2]].first_key)

\* the greater of two sizes
Max(a, b) == IF a >= b THEN a ELSE b

\* C9: for every snapshot and every configuration with a multiplier of at
\* least 1, the target sizes generate_compaction_task computes do not
\* decrease from a level to the next, and the target of the bottom level is
\* the greater of its real size and the configured base level size in bytes.
C9_TargetMonotone ==
    /\ \A i \in 1..(options.max_levels - 1) :
          TargetSizes[i] <= TargetSizes[i + 1]
    /\ TargetSizes[options.max_levels]
          = Max(RealSizes[options.max_levels], base_level_size_bytes(options))

\* C9 witness: a task was generated where the bottom level is larger than
\* the configured base size and the level above it got a smaller target
\* above zero.
C9_Witness ==
    /\ Generated
    /\ options.max_levels >= 2
    /\ RealSizes[options.max_levels] > base_level_size_bytes(options)
    /\ TargetSizes[options.max_levels - 1] > 0
    /\ TargetSizes[options.max_levels - 1] < TargetSizes[options.max_levels]

\* real size / target size of level i is at most that of level u, both
\* levels being over their target
RatioAtMost(i, u) ==
    IF TargetSizes[u] = 0 THEN TRUE
    ELSE IF TargetSizes[i] = 0 THEN FALSE
    ELSE RatioCmp(RealSizes[i], TargetSizes[i], RealSizes[u], TargetSizes[u])
            # "Greater"

\* C10: with the L0 count below the trigger, generate_compaction_task
\* returns a task exactly when some level has real size / target size above
\* 1; the task's upper_level is a level whose ratio is the greatest of all
\* levels, its upper_level_sst_ids is the one table of that level with the
\* smallest id, and its lower_level is upper_level + 1.  Otherwise it
\* returns None.
C10_RatioSelection ==
    (Generated /\ ~L0Due)
        => IF OverTarget = {} THEN task = <<>>
           ELSE /\ task # <<>>
                /\ Len(task[1].upper_level) = 1
                /\ task[1].upper_level[1] \in OverTarget
                /\ \A i \in OverTarget : RatioAtMost(i, task[1].upper_level[1])
                /\ Len(task[1].upper_level_sst_ids) = 1
                /\ task[1].upper_level_sst_ids[1]
                      \in ToSet(levels[task[1].upper_level[1]])
                /\ \A id \in ToSet(levels[task[1].upper_level[1]]) :
                      task[1].upper_level_sst_ids[1] <= id
                /\ task[1].lower_level = task[1].upper_level[1] + 1

\* C10 witness: two levels are over their target and the level picked is
\* the one of the strictly greater ratio, not the deeper one.
C10_Witness ==
    /\ Generated /\ ~L0Due
    /\ task # <<>>
    /\ \E i \in OverTarget :
          /\ i > task[1].upper_level[1]
          /\ ~RatioAtMost(task[1].upper_level[1], i)
    /\ task[1].upper_level_sst_ids
          = <<MinId(levels[task[1].upper_level[1]])>>

\* the list a task claims its upper sources from
UpperList(tsk) ==
    IF tsk.upper_level # <<>> THEN levels[tsk.upper_level[1]] ELSE l0_sstables

\* some upper source of tsk is not in its claimed upper list
UpperMissing(tsk) ==
    ~(ToSet(tsk.upper_level_sst_ids) \subseteq ToSet(UpperList(tsk)))

\* some lower source of tsk is not in the lower level's list
LowerMissing(tsk) ==
    ~(ToSet(tsk.lower_level_sst_ids) \subseteq ToSet(levels[tsk.lower_level]))

\* the step is a call of apply_compaction_result
ApplyCalled == lpc # "panic" /\ lpc' \in { "apply", "apply_recovery", "panic" }

\* C11: a call of apply_compaction_result for a task naming an upper source
\* that its claimed upper list (L0 or the upper level) does not hold, or a
\* lower source that the lower level does not hold, panics: no snapshot and
\* no files_to_remove come back, and nothing is installed.
C11_MissingSourceFatal ==
    [][(ApplyCalled /\ (UpperMissing(applied'[1]) \/ LowerMissing(applied'[1])))
         => /\ lpc' = "panic"
            /\ UNCHANGED <<l0_sstables, levels, sstables, files_to_remove,
                           removed>>]_vars

\* a call panicked over a lower source alone: every upper source of the task
\* is in its list, one lower source is in no list
C11_Witness ==
    /\ lpc = "panic"
    /\ applied # <<>>
    /\ ~UpperMissing(applied[1])
    /\ LowerMissing(applied[1])
    /\ applied[1].upper_level # <<>>


\* the ids of list that are not in ids, in the order of list
Without(list, ids) == SelectSeq(list, LAMBDA x : x \notin ToSet(ids))

\* the step applies tsk: beside the upper list and the lower level of tsk
\* every list after the step is the list before it, and the upper list keeps
\* the ids that are no upper sources in the order they had
ApplyStepFrame(tsk) ==
    /\ Len(levels') = Len(levels)
    /\ \A i \in 1..Len(levels) :
            (i # tsk.lower_level /\ tsk.upper_level # <<i>>)
                => levels'[i] = levels[i]
    /\ tsk.upper_level # <<>> => l0_sstables' = l0_sstables
    /\ tsk.upper_level = <<>>
            => l0_sstables' = Without(l0_sstables, tsk.upper_level_sst_ids)
    /\ (tsk.upper_level # <<>> /\ tsk.upper_level # <<tsk.lower_level>>)
            => levels'[tsk.upper_level[1]]
                  = Without(levels[tsk.upper_level[1]], tsk.upper_level_sst_ids)

\* the step applies a task: the call hands the id-to-table mapping back as
\* it got it, so a table known before the step and not removed by it is the
\* same table after it, and the tables known after it are those and the
\* output
MappingKept ==
    /\ DOMAIN sstables'
          = (DOMAIN sstables \cup ToSet(output')) \ ToSet(files_to_remove')
    /\ \A id \in DOMAIN sstables \cap DOMAIN sstables' :
            sstables'[id] = sstables[id]

\* C12: generate_compaction_task changes no list and no table of the
\* snapshot.  apply_compaction_result returns a snapshot that differs from
\* the one it was given only in the upper list of the task and in its lower
\* level: every other list is the same, the upper list keeps its other ids in
\* their order, and the id-to-table mapping is the same.
C12_Frame ==
    /\ [][lpc' = "generate"
            => UNCHANGED <<l0_sstables, levels, sstables>>]_vars
    /\ [][lpc' \in { "apply", "apply_recovery" }
            => (ApplyStepFrame(applied'[1]) /\ MappingKept)]_vars

\* an L0 task was applied after two more tables were flushed: its sources
\* are gone from L0 and the two tables stay there in their order
C12_Witness ==
    /\ Applied
    /\ applied[1].upper_level = <<>>
    /\ files_to_remove # <<>>
    /\ Len(l0_sstables) >= 2
    /\ l0_sstables[1] < l0_sstables[2]

\* C13: a call of key() or value() on an iterator that is not valid, after
\* next() ran off the end or seek_to_key found no entry, panics and returns
\* nothing.
C13_InvalidReadFatal ==
    (got # <<>> /\ ~is_valid(iter)) => got[1].panic

\* what add() compares with block_size: the bytes held, the offsets and the
\* entry count, the key with its version stamp, the value, three 16-bit fields
SizeCheck(b, key, value) ==
    (2 + 2 * Len(b.offsets) + BufLen(b.data)) + (Len(key.key) + 8)
        + Len(value) + 6

\* the step is a call of add() that returned true: it put its entry last
\* into the history, and on a builder with entries the size check of that
\* entry did not exceed block_size
AcceptedWithinSize ==
    LET e == added'[Len(added')]
    IN  /\ Len(added') = Len(added) + 1
        /\ \/ is_empty(builder)
           \/ SizeCheck(builder, e.key, BufBytes(e.value)) <= builder.block_size

\* the step is a call of add() that returned false: the builder had entries
\* and is as it was, and can still be built
RejectedUnchanged ==
    /\ ~is_empty(builder)
    /\ builder'.offsets = builder.offsets
    /\ builder'.data = builder.data
    /\ builder'.first_key = builder.first_key
    /\ ~is_empty(builder')

\* what add(key, value) returns on the builder: false exactly when the
\* builder has entries and the size check exceeds block_size
ReturnsFalseExactly ==
    \A key \in Keys, value \in Values :
        add_is_full(builder, key, value)
            <=> (~is_empty(builder)
                    /\ SizeCheck(builder, key, value) > builder.block_size)

\* C14: add() on an empty builder returns true whatever the entry and the
\* block size.  On a builder with entries it returns false exactly when the
\* size check exceeds block_size, and then leaves offsets, data and first_key
\* as they were, so that the builder can still be built.
C14_Admission ==
    /\ [](bpc = "building" => ReturnsFalseExactly)
    /\ [][(bpc = "building" /\ bpc' = "building")
            => IF ret' THEN AcceptedWithinSize ELSE RejectedUnchanged]_vars

\* add() returned false on a builder with entries, which is as it was
C14_Witness ==
    /\ bpc = "building"
    /\ ret = FALSE
    /\ ~is_empty(builder)
    /\ Len(builder.offsets) = Len(added)

\* the length of the longest common prefix of two byte strings
LongestCommonPrefix(a, b) ==
    LET m == IF Len(a) < Len(b) THEN Len(a) ELSE Len(b)
        common == { n \in 0..m : SubSeq(a, 1, n) = SubSeq(b, 1, n) }
    IN  CHOOSE n \in common : \A k \in common : k <= n

\* the step is a call of add() that returned true: the entry it wrote, from
\* the end of the data before the step on, holds as overlap the length of the
\* longest common prefix of its key and the first key of the block, 0 when
\* it is the first entry, and that prefix of the first key followed by the
\* key bytes stored is the key
OverlapStored ==
    LET off == BufLen(builder.data)
        key == added'[Len(added')].key.key
        first == added'[1].key.key
        overlap == get_u16(builder'.data, off)
        rest_len == get_u16(builder'.data, off + 2)
        rest == BufSlice(builder'.data, off + 4, off + 4 + rest_len)
    IN  /\ overlap = IF added = <<>> THEN 0
                     ELSE LongestCommonPrefix(first, key)
        /\ overlap <= Len(first) /\ overlap <= Len(key)
        /\ SubSeq(first, 1, overlap) \o rest = key

ComputedBaseLevel == compute_target(options, CurrentSnapshot).base_level

\* the target a level above the last one computes for itself
OwnTarget(i) == TargetSizes[i + 1] \div options.level_size_multiplier

\* the base level is the lowest-numbered level with a target above zero, the
\* last level when no other has one, and an L0 task goes there
BaseLevelLowestActive ==
    /\ ComputedBaseLevel = BaseLevel
    /\ (Generated /\ L0Due) => (task # <<>> /\ task[1].lower_level = BaseLevel)

\* C16 as stated: a level above the last one has a target above zero only if
\* the target it computes for itself, the next level's target divided by the
\* multiplier, exceeds the configured base level size; and the base level
\* of an L0 task is the lowest-numbered level with a target above zero.
C16_OwnTargetExceedsBase ==
    /\ \A i \in 1..(options.max_levels - 1) :
            TargetSizes[i] > 0 => OwnTarget(i) > base_level_size_bytes(options)
    /\ BaseLevelLowestActive

\* C16 amended: a level above the last one has the target it computes for
\* itself exactly when the target of the next level exceeds the configured
\* base level size, and target 0 otherwise; its own target may be at or
\* below that size.  The base level of an L0 task is the lowest-numbered
\* level with a target above zero.
C16_NextTargetExceedsBase ==
    /\ \A i \in 1..(options.max_levels - 1) :
            TargetSizes[i]
                = IF TargetSizes[i + 1] > base_level_size_bytes(options)
                  THEN OwnTarget(i) ELSE 0
    /\ BaseLevelLowestActive

\* an L0 task goes to a level above the last one whose target is above zero
\* and not above the configured base level size
C16_Witness ==
    /\ Generated /\ L0Due
    /\ task # <<>>
    /\ task[1].lower_level < options.max_levels
    /\ TargetSizes[task[1].lower_level] > 0
    /\ TargetSizes[task[1].lower_level] <= base_level_size_bytes(options)

\* the levels numbered lower than the base level
AboveBase == 1..(BaseLevel - 1)

\* C17: from an inventory with no table in levels 1..max_levels, after any
\* flushes and cycles of generate and apply whose merges write no more than
\* they read, every level numbered lower than the base level has target size
\* 0 and holds no table.
C17_NothingAboveBase ==
    \A i \in AboveBase : TargetSizes[i] = 0 /\ levels[i] = <<>>

\* the first entry added is larger than the block size allows a later one
FirstEntryOversized ==
    /\ added # <<>>
    /\ SizeCheck(NewBuilder(builder.block_size), added[1].key,
                 BufBytes(added[1].value)) > builder.block_size

\* C18: a first entry larger than block_size, of whatever key and value
\* length, is admitted, and the iterator create_and_seek_to_first returns for
\* the built block is valid and has the key, the version stamp and the value
\* of that entry: the 16-bit length fields hold the lengths.
C18_OversizedFirstEntry ==
    (bpc = "iterating" /\ origin = "first" /\ iter.idx = 0
        /\ FirstEntryOversized)
        => /\ is_valid(iter)
           /\ key_of(iter).key = added[1].key.key
           /\ key_of(iter).ts = added[1].key.ts
           /\ ToBuf(value_of(iter, block)) = added[1].value
           /\ get_u16(block.data, SIZEOF_U16) = Len(added[1].key.key)
           /\ get_u16(block.data,
                      2 * SIZEOF_U16 + Len(added[1].key.key) + SIZEOF_U64)
                  = BufLen(added[1].value)

\* the list the upper sources of the generated task are taken from
TaskUpperList ==
    IF task[1].upper_level = <<>> THEN l0_sstables
    ELSE levels[task[1].upper_level[1]]

\* C19: with max_levels and the L0 trigger at least 1, the lower level of
\* every task generate_compaction_task returns is one of 1..max_levels; the
\* last level, whose real size never exceeds its target, is never the upper
\* level of a task; the upper level or L0 the task takes its sources from is
\* not empty; and is_lower_level_bottom_level is true exactly when the lower
\* level is max_levels.
C19_TaskWellFormed ==
    /\ ~PrioOverOne(RealSizes[options.max_levels],
                    TargetSizes[options.max_levels])
    /\ (Generated /\ task # <<>>)
          => /\ task[1].lower_level \in 1..options.max_levels
             /\ task[1].upper_level # <<>>
                   => /\ task[1].upper_level[1] \in 1..(options.max_levels - 1)
                      /\ task[1].lower_level = task[1].upper_level[1] + 1
             /\ TaskUpperList # <<>>
             /\ task[1].upper_level_sst_ids # <<>>
             /\ ToSet(task[1].upper_level_sst_ids) \subseteq ToSet(TaskUpperList)
             /\ task[1].is_lower_level_bottom_level
                   <=> task[1].lower_level = options.max_levels

\* a size-ratio task out of the level above the last one, marked as going to
\* the bottom level, while the last level holds more than every other level
C19_Witness ==
    /\ Generated /\ task # <<>>
    /\ options.max_levels >= 2
    /\ task[1].upper_level = <<options.max_levels - 1>>
    /\ task[1].is_lower_level_bottom_level
    /\ RealSizes[options.max_levels] > RealSizes[options.max_levels - 1]

====
